---- MODULE Spec2Model ----
(***************************************************************************)
(* Model of the orchestration core of agent-ai-learnings:                  *)
(*   - ScalableMemoryFactory (src/day5/scalableMemory.ts),                 *)
(*   - the three linear graphs agentGraph (day4/graph.ts),                 *)
(*     agentGraphWithMemory (day5/graphWithMemory.ts) and                  *)
(*     scalableAgentGraph (day5/scalableMemory.ts),                        *)
(*   - the retry policy attached to callAgent in the Day-5 graphs,         *)
(*   - the single module-level agentExecutor (day3/executor.ts) whose      *)
(*     memory field the Day-5 callAgent bodies assign before invoking it.  *)
(*                                                                         *)
(* JavaScript runs every synchronous stretch of code to completion; runs   *)
(* of a graph interleave only at an await.  Each action below is one such  *)
(* synchronous stretch.                                                    *)
(***************************************************************************)
EXTENDS Integers, Sequences, FiniteSets, TLC

\* ---------------------------------------------------------------- bounds
MaxRuns == 2          \* graph invocations made in one behaviour
NumUsers == 2         \* distinct user identifiers
MaxJitter == 1        \* lateness (ms) a backoff timer may add to a wait
MaxEvictions == 1     \* registry entries clearMemory removes in one behaviour
MaxToolCalls == 1     \* calls of one tool the agent makes in one attempt
MaxItems == 3         \* items in the body of a Google Books response

\* ------------------------------------------------------- program constants
InitialInterval == 1000   \* retryPolicy.initialInterval (ms)
BackoffFactor == 2        \* retryPolicy.backoffFactor
MaxAttempts == 3          \* retryPolicy.maxAttempts

NoInstance == 0           \* undefined / null: no BufferMemory
ModuleMemory == 1         \* the module-level `memory` of graphWithMemory.ts
FirstFactoryInstance == 2 \* identities of the BufferMemory objects the factory news

Runs == 1..MaxRuns
UserOf == <<"u1", "u2", "u3", "u4">>
Users == {UserOf[i] : i \in 1..NumUsers}
\* userId values that identify nobody: the empty string and a missing userId
InvalidIds == {"", "undefined"}
\* every value callAgent can pass to createMemory; a Map takes any of them as key
Keys == Users \cup InvalidIds
Inputs == {"search X", "search Y"}
\* a request the agent serves with the refundPayment tool
RefundInput == "refund P"
ToolInputs == {"search X", RefundInput}
Unset == "undefined"
Graphs == {"agentGraph", "agentGraphWithMemory", "scalableAgentGraph"}
Nodes == {"echoInput", "callAgent", "return"}
\* every BufferMemory the program can ever hold: the module-level one and one
\* per callAgent attempt at most
Instances == ModuleMemory..(FirstFactoryInstance + MaxAttempts * MaxRuns)

VARIABLES
  memoryInstances,      \* ScalableMemoryFactory.memoryInstances : userId -> BufferMemory
  chatHistory,          \* messages held by each BufferMemory object
  nextInstance,         \* identity the next `new BufferMemory` gets
  agentExecutorMemory,  \* agentExecutor.memory (one field, shared by all graphs)
  pc,                   \* per run: position in the graph
  graph,                \* per run: which compiled graph was invoked
  state,                \* per run: the GraphState channels
  userMemory,           \* per run: const userMemory of callAgent
  loaded,               \* per run: chat_history the executor loaded for the attempt
  attempts,             \* per run: number of times the callAgent body was entered
  waits,                \* per run: the backoff waits slept so far (ms)
  failures,             \* per run: number of times the callAgent body threw
  error,                \* per run: attempt whose error aborted the run, 0 if none
  initial,              \* per run: the argument of invoke                 (history)
  trace,                \* per run: node bodies entered, merged, thrown     (history)
  evicted,              \* per run: userMemory was evicted since obtained   (history)
  evictions,            \* number of registry entries removed so far        (history)
  returnedFor,          \* per BufferMemory: userIds createMemory returned it for (history)
  appendedVia,          \* per userId: messages appended to a store returned for it (history)
  clearedAbsent,        \* clearUserMemory was called for a user without a store (history)
  startedAfter,         \* per run: the runs already over when it was invoked  (history)
  modulePc,             \* position of the top-level code of day3/executor
  loadTrace,            \* tools run by the module-level agent call, since Init (history)
  booksCall             \* the latest call of searchBooks and its outcome     (history)

vars == <<memoryInstances, chatHistory, nextInstance, agentExecutorMemory, pc,
          graph, state, userMemory, loaded, attempts, waits, failures, error,
          initial, trace, evicted, evictions, returnedFor, appendedVia,
          clearedAbsent, startedAfter, modulePc, loadTrace, booksCall>>

moduleVars == <<modulePc, loadTrace, booksCall>>
factoryVars == <<memoryInstances, nextInstance, returnedFor>>
historyVars == <<chatHistory, appendedVia>>

Range(s) == {s[i] : i \in 1..Len(s)}

\* ------------------------------------------------------------ GraphState
Fields == {"input", "agentOut", "chat_history", "userId"}

\* Merge, had it replaced the whole state by the returned update
MergeReplace(s, update) ==
  [f \in Fields |-> IF f \in DOMAIN update THEN update[f] ELSE Unset]

\* channel update of the compiled graph: each returned field overwrites its
\* channel, every other channel keeps its value
Merge(s, update) ==
  [f \in Fields |-> IF f \in DOMAIN update THEN update[f] ELSE s[f]]

\* ----------------------------------------------------------------- edges
\* Edges, had callAgent been wired before echoInput
EdgesReordered == {<<"__start__", "callAgent">>, <<"callAgent", "echoInput">>,
                   <<"echoInput", "return">>, <<"return", "__end__">>}

\* Edges, had return been wired back to echoInput
EdgesCyclic == {<<"__start__", "echoInput">>, <<"echoInput", "callAgent">>,
                <<"callAgent", "return">>, <<"return", "echoInput">>}

Edges == {<<"__start__", "echoInput">>, <<"echoInput", "callAgent">>,
          <<"callAgent", "return">>, <<"return", "__end__">>}

Successor(n) == CHOOSE m \in Nodes \cup {"__end__"} : <<n, m>> \in Edges
Predecessor(n) == CHOOSE m \in Nodes \cup {"__start__"} : <<m, n>> \in Edges

\* ------------------------------------------------------------ node bodies
\* echoInput, had the Day-5 node returned the input alone under both keys
echoInputAsUser(g, s) ==
  IF g = "scalableAgentGraph"
    THEN [input |-> s.input, userId |-> s.input]
    ELSE [input |-> s.input]

echoInput(g, s) ==
  IF g = "scalableAgentGraph"
    THEN [input |-> s.input, userId |-> s.userId]
    ELSE [input |-> s.input]

\* return, had it handed back the input as the output
returnEchoesInput(s) == [agentOut |-> s.input]

return(s) == [agentOut |-> s.agentOut]

\* HasRetryPolicy, had the Day-4 callAgent been given the policy too
HasRetryPolicyAll(g) == g \in {"agentGraph", "agentGraphWithMemory", "scalableAgentGraph"}

HasRetryPolicy(g) == g \in {"agentGraphWithMemory", "scalableAgentGraph"}

\* RetryAllowed, had maxAttempts been one attempt short
RetryAllowedEarly(g, n) == g \in {"agentGraphWithMemory", "scalableAgentGraph"} /\ n < MaxAttempts - 1

\* RetryAllowed, had maxAttempts counted the retries instead of the attempts
RetryAllowedExtra(g, n) == g \in {"agentGraphWithMemory", "scalableAgentGraph"} /\ n <= MaxAttempts

\* the runtime enters the body again after a throw while attempts remain
RetryAllowed(g, n) == HasRetryPolicy(g) /\ n < MaxAttempts

\* Delay, had the backoff factor not been applied
DelayConstant(n) == InitialInterval

\* wait before attempt n+1, after n failed attempts: starts at initialInterval
\* and is multiplied by backoffFactor on each retry
Delay(n) == InitialInterval * BackoffFactor ^ (n - 1)

\* ------------------------------------------------- ScalableMemoryFactory
\* createMemory, had the registry kept only the most recent user
createMemoryEvicting(userId) ==
  IF memoryInstances[userId] # NoInstance
    THEN [memory |-> memoryInstances[userId],
          memoryInstances |-> memoryInstances,
          nextInstance |-> nextInstance]
    ELSE [memory |-> nextInstance,
          memoryInstances |-> [u \in Keys |-> IF u = userId THEN nextInstance
                                                            ELSE NoInstance],
          nextInstance |-> nextInstance + 1]

\* createMemory, had it handed out one BufferMemory whatever the key
createMemoryShared(userId) ==
  IF \E u \in Users : memoryInstances[u] # NoInstance
    THEN LET v == CHOOSE u \in Users : memoryInstances[u] # NoInstance IN
         [memory |-> memoryInstances[v],
          memoryInstances |-> [memoryInstances EXCEPT ![userId] = memoryInstances[v]],
          nextInstance |-> nextInstance]
    ELSE [memory |-> nextInstance,
          memoryInstances |-> [memoryInstances EXCEPT ![userId] = nextInstance],
          nextInstance |-> nextInstance + 1]

\* createMemory, had it skipped the lookup of an existing instance
createMemoryAlwaysNew(userId) ==
  [memory |-> nextInstance,
   memoryInstances |-> [memoryInstances EXCEPT ![userId] = nextInstance],
   nextInstance |-> nextInstance + 1]

\* createMemory, had it not stored the new instance in the registry
createMemoryNoInsert(userId) ==
  IF memoryInstances[userId] # NoInstance
    THEN [memory |-> memoryInstances[userId],
          memoryInstances |-> memoryInstances,
          nextInstance |-> nextInstance]
    ELSE [memory |-> nextInstance,
          memoryInstances |-> memoryInstances,
          nextInstance |-> nextInstance + 1]

\* createMemory(userId): the BufferMemory returned (memory), the registry and
\* the next object identity after the call
createMemory(userId) ==
  IF memoryInstances[userId] # NoInstance
    THEN [memory |-> memoryInstances[userId],
          memoryInstances |-> memoryInstances,
          nextInstance |-> nextInstance]
    ELSE [memory |-> nextInstance,
          memoryInstances |-> [memoryInstances EXCEPT ![userId] = nextInstance],
          nextInstance |-> nextInstance + 1]

\* clearMemory, had a missing entry made it reset the whole registry
clearMemoryAbsentResets(userId) ==
  LET memory == memoryInstances[userId] IN
  IF memory # NoInstance
    THEN [chatHistory |-> [chatHistory EXCEPT ![memory] = <<>>],
          memoryInstances |-> [memoryInstances EXCEPT ![userId] = NoInstance]]
    ELSE [chatHistory |-> chatHistory,
          memoryInstances |-> [u \in Keys |-> NoInstance]]

\* clearMemory, had it emptied the history and kept the registry entry
clearMemoryKeepEntry(userId) ==
  LET memory == memoryInstances[userId] IN
  IF memory # NoInstance
    THEN [chatHistory |-> [chatHistory EXCEPT ![memory] = <<>>],
          memoryInstances |-> memoryInstances]
    ELSE [chatHistory |-> chatHistory, memoryInstances |-> memoryInstances]

\* clearMemory, had it emptied and dropped every user's store
clearMemoryAll(userId) ==
  LET memory == memoryInstances[userId] IN
  IF memory # NoInstance
    THEN [chatHistory |-> [i \in Instances |->
                            IF \E u \in Keys : memoryInstances[u] = i
                              THEN <<>> ELSE chatHistory[i]],
          memoryInstances |-> [u \in Keys |-> NoInstance]]
    ELSE [chatHistory |-> chatHistory, memoryInstances |-> memoryInstances]

\* clearMemory(userId): the histories and the registry after the call
clearMemory(userId) ==
  LET memory == memoryInstances[userId] IN
  IF memory # NoInstance
    THEN [chatHistory |-> [chatHistory EXCEPT ![memory] = <<>>],
          memoryInstances |-> [memoryInstances EXCEPT ![userId] = NoInstance]]
    ELSE [chatHistory |-> chatHistory, memoryInstances |-> memoryInstances]

\* getMemoryStats, had totalInstances counted every BufferMemory ever created
getMemoryStatsCreated ==
  [totalUsers |-> Cardinality({u \in Keys : memoryInstances[u] # NoInstance}),
   totalInstances |-> nextInstance - FirstFactoryInstance]

getMemoryStats ==
  [totalUsers |-> Cardinality({u \in Keys : memoryInstances[u] # NoInstance}),
   totalInstances |-> Cardinality({u \in Keys : memoryInstances[u] # NoInstance})]

\* ------------------------------------------------------------- the agent
\* The agent is an external collaborator. Its prompt is built from
\* {chat_history} and {input} and its temperature is 0, so its answer is a
\* function of the two.
FirstAnswer ==
  [i \in Inputs \cup ToolInputs |->
     CASE i = "search X" -> "found: X"
       [] i = "search Y" -> "found: Y"
       [] i = RefundInput -> "refunded: P"]
FollowUp ==
  [i \in Inputs \cup ToolInputs |->
     CASE i = "search X" -> "found: X again"
       [] i = "search Y" -> "found: Y again"
       [] i = RefundInput -> "refunded: P again"]
AgentOutput(input, history) ==
  IF history = <<>> THEN FirstAnswer[input] ELSE FollowUp[input]

\* messages saveContext appends for one exchange; `run` stands for the identity
\* of the message objects (each saveContext creates new ones)
HumanMessage(r, text) == [role |-> "human", content |-> text, run |-> r]
AIMessage(r, text) == [role |-> "ai", content |-> text, run |-> r]

\* entries of trace
Enter(n) == [ev |-> "enter", node |-> n]
Done(n) == [ev |-> "done", node |-> n]
Fail(n) == [ev |-> "fail", node |-> n]
\* a tool ran to its end during the agent call; searchBooks caught a failed
\* fetch during the agent call
ToolRan(t) == [ev |-> "tool", node |-> t]
FetchFailed(t) == [ev |-> "fetchFailed", node |-> t]

\* ----------------------------------------------------- lib/googleBooks.ts
\* a query holding a lone surrogate code unit, which is not well-formed UTF-16
LoneSurrogate == "<lone surrogate>"
Queries == {"", "harry potter", LoneSurrogate}

\* encodeURIComponent: percent-encodes the UTF-8 form of its argument and
\* throws URIError when the argument holds a lone surrogate
encodeURIComponent(q) ==
  CASE q = LoneSurrogate -> [threw |-> TRUE, text |-> ""]
    [] q = "harry potter" -> [threw |-> FALSE, text |-> "harry%20potter"]
    [] OTHER -> [threw |-> FALSE, text |-> q]

\* elements of data.items: null, an object without volumeInfo, a volumeInfo
\* without any of the three properties, and two complete volumes
Items ==
  {[truthy |-> FALSE, hasInfo |-> FALSE, title |-> Unset, authors |-> Unset, link |-> Unset],
   [truthy |-> TRUE, hasInfo |-> FALSE, title |-> Unset, authors |-> Unset, link |-> Unset],
   [truthy |-> TRUE, hasInfo |-> TRUE, title |-> Unset, authors |-> Unset, link |-> Unset],
   [truthy |-> TRUE, hasInfo |-> TRUE, title |-> "Dune", authors |-> "Herbert", link |-> "l1"],
   [truthy |-> TRUE, hasInfo |-> TRUE, title |-> "Emma", authors |-> "Austen", link |-> "l2"]}

ItemLists == UNION {[1..n -> Items] : n \in 0..MaxItems}

\* what the request does: fetch rejects; or it responds, with res.ok or not,
\* and res.json() rejects, gives null, or gives an object whose items is an
\* array or is not one
Responses ==
  {[fetch |-> "rejects", ok |-> FALSE, json |-> "fails", isArray |-> FALSE, items |-> <<>>],
   [fetch |-> "responds", ok |-> FALSE, json |-> "object", isArray |-> TRUE, items |-> <<>>],
   [fetch |-> "responds", ok |-> TRUE, json |-> "fails", isArray |-> FALSE, items |-> <<>>],
   [fetch |-> "responds", ok |-> TRUE, json |-> "null", isArray |-> FALSE, items |-> <<>>],
   [fetch |-> "responds", ok |-> TRUE, json |-> "object", isArray |-> FALSE, items |-> <<>>]}
  \cup {[fetch |-> "responds", ok |-> TRUE, json |-> "object", isArray |-> TRUE, items |-> l] :
          l \in ItemLists}

\* b.volumeInfo?.x ?? default
BookEntry(b) ==
  [title |-> IF b.title = Unset THEN "Unknown title" ELSE b.title,
   authors |-> IF b.authors = Unset THEN "[]" ELSE b.authors,
   link |-> IF b.link = Unset THEN "" ELSE b.link]

\* searchBooks(query) against a request that behaves as `response`: whether
\* the returned promise rejects (raised) and the list it resolves with. The
\* url is built before the try block; everything from fetch on is inside it,
\* and its catch returns []
searchBooks(query, response) ==
  LET enc == encodeURIComponent(query)
      failed == \/ response.fetch = "rejects"
                \/ ~response.ok
                \/ response.json # "object"
      items == IF response.isArray THEN response.items ELSE <<>>
      HasVolumeInfo(b) == b.truthy /\ b.hasInfo
      kept == SelectSeq(items, HasVolumeInfo)
  IN IF enc.threw THEN [raised |-> "URIError", value |-> <<>>]
     ELSE IF failed THEN [raised |-> "none", value |-> <<>>]
     ELSE [raised |-> "none", value |-> [k \in 1..Len(kept) |-> BookEntry(kept[k])]]

\* booksCall before any call
NoCall ==
  [called |-> FALSE, query |-> "",
   response |-> [fetch |-> "rejects", ok |-> FALSE, json |-> "fails",
                 isArray |-> FALSE, items |-> <<>>],
   outcome |-> [raised |-> "none", value |-> <<>>]]

\* the error agentExecutor.invoke rejected with in the n-th attempt of a run;
\* `id` stands for the identity of the error object. No node body has a
\* try/catch, so callAgent rejects with this very object
ThrownError(n) == [name |-> "Error", origin |-> "agentExecutor.invoke", id |-> n]

\* ------------------------------------------------------------------ Init
\* nothing invoked yet: empty registry, no memory attached, no run started
InitGraphs ==
  /\ memoryInstances = [u \in Keys |-> NoInstance]
  /\ chatHistory = [i \in Instances |-> <<>>]
  /\ nextInstance = FirstFactoryInstance
  /\ agentExecutorMemory = NoInstance
  /\ pc = [r \in Runs |-> "idle"]
  /\ graph = [r \in Runs |-> "none"]
  /\ state = [r \in Runs |-> [f \in Fields |-> Unset]]
  /\ userMemory = [r \in Runs |-> NoInstance]
  /\ loaded = [r \in Runs |-> <<>>]
  /\ attempts = [r \in Runs |-> 0]
  /\ waits = [r \in Runs |-> <<>>]
  /\ failures = [r \in Runs |-> 0]
  /\ error = [r \in Runs |-> 0]
  /\ initial = [r \in Runs |-> [f \in Fields |-> Unset]]
  /\ trace = [r \in Runs |-> <<>>]
  /\ evicted = [r \in Runs |-> FALSE]
  /\ evictions = 0
  /\ returnedFor = [i \in Instances |-> {}]
  /\ appendedVia = [u \in Keys |-> {}]
  /\ clearedAbsent = FALSE
  /\ startedAfter = [r \in Runs |-> {}]
  /\ loadTrace = <<>>
  /\ booksCall = NoCall

\* the graph modules and day3/executor, which they import, have been loaded
Init == InitGraphs /\ modulePc = "loaded"

\* the import of day3/executor has reached its top-level code
InitLoad == InitGraphs /\ modulePc = "import"

\* --------------------------------------------------------------- actions
\* graph.invoke(initial): a fresh GraphState for the run, then the first edge.
\* Only scalableAgentGraph declares the userId channel.
Invoke(r, g, in, u) ==
  /\ modulePc = "loaded"
  /\ pc[r] = "idle"
  /\ \A q \in Runs : q < r => pc[q] # "idle"
  /\ g = "scalableAgentGraph" \/ u = UserOf[1]
  /\ graph' = [graph EXCEPT ![r] = g]
  /\ LET arg == IF g = "scalableAgentGraph"
                  THEN [input |-> in, userId |-> u]
                  ELSE [input |-> in]
     IN /\ state' = [state EXCEPT ![r] = Merge(@, arg)]
        /\ initial' = [initial EXCEPT ![r] = Merge(state[r], arg)]
  /\ pc' = [pc EXCEPT ![r] = Successor("__start__")]
  /\ startedAfter' = [startedAfter EXCEPT ![r] =
                        {q \in Runs : pc[q] \in {"__end__", "error"}}]
  /\ UNCHANGED <<moduleVars, factoryVars, historyVars, agentExecutorMemory, userMemory,
                 loaded, attempts, waits, failures, error, trace, evicted,
                 evictions, clearedAbsent>>

\* EchoInput, had all runs of a compiled graph shared one GraphState
EchoInputShared(r) ==
  /\ pc[r] = "echoInput"
  /\ state' = [q \in Runs |->
                 IF graph[q] = graph[r]
                   THEN Merge(state[q], echoInput(graph[r], state[r]))
                   ELSE state[q]]
  /\ trace' = [trace EXCEPT ![r] = @ \o <<Enter("echoInput"), Done("echoInput")>>]
  /\ pc' = [pc EXCEPT ![r] = Successor("echoInput")]
  /\ UNCHANGED <<moduleVars, factoryVars, historyVars, agentExecutorMemory, graph,
                 userMemory, loaded, attempts, waits, failures, error, initial,
                 evicted, evictions, clearedAbsent, startedAfter>>

\* node echoInput
EchoInput(r) ==
  /\ pc[r] = "echoInput"
  /\ state' = [state EXCEPT ![r] = Merge(@, echoInput(graph[r], @))]
  /\ trace' = [trace EXCEPT ![r] = @ \o <<Enter("echoInput"), Done("echoInput")>>]
  /\ pc' = [pc EXCEPT ![r] = Successor("echoInput")]
  /\ UNCHANGED <<moduleVars, factoryVars, historyVars, agentExecutorMemory, graph,
                 userMemory, loaded, attempts, waits, failures, error, initial,
                 evicted, evictions,
                 clearedAbsent, startedAfter>>

\* node callAgent, from entry of the body to the suspension inside
\* agentExecutor.invoke: the memory is attached and the executor loads the
\* chat history from the memory it finds attached. With attempts[r] > 0 the
\* run was asleep in its backoff wait until now.
CallAgent(r) ==
  /\ pc[r] = "callAgent"
  /\ trace' = [trace EXCEPT ![r] = Append(@, Enter("callAgent"))]
  /\ attempts' = [attempts EXCEPT ![r] = @ + 1]
  /\ IF graph[r] = "scalableAgentGraph"
       THEN LET c == createMemory(state[r].userId) IN
            /\ memoryInstances' = c.memoryInstances
            /\ nextInstance' = c.nextInstance
            /\ returnedFor' = [returnedFor EXCEPT ![c.memory] = @ \cup {state[r].userId}]
            /\ userMemory' = [userMemory EXCEPT ![r] = c.memory]
            /\ evicted' = [evicted EXCEPT ![r] = FALSE]
            /\ agentExecutorMemory' = c.memory
       ELSE /\ UNCHANGED <<factoryVars, userMemory, evicted>>
            /\ agentExecutorMemory' =
                 IF graph[r] = "agentGraphWithMemory"
                   THEN ModuleMemory ELSE agentExecutorMemory
  /\ loaded' = [loaded EXCEPT ![r] =
                  IF agentExecutorMemory' # NoInstance
                    THEN chatHistory[agentExecutorMemory'] ELSE <<>>]
  /\ pc' = [pc EXCEPT ![r] = "awaitAgent"]
  /\ UNCHANGED <<moduleVars, historyVars, graph, state, waits, failures, error, initial,
                 evictions, clearedAbsent, startedAfter>>

\* AgentReturns, had the agent been given the history found in the attached
\* memory when it answers instead of the one loaded when invoke was called
AgentReturnsLateRead(r) ==
  /\ pc[r] = "awaitAgent"
  /\ LET m == agentExecutorMemory
         out == AgentOutput(state[r].input,
                            IF m # NoInstance THEN chatHistory[m] ELSE <<>>)
         exchange == <<HumanMessage(r, state[r].input), AIMessage(r, out)>>
     IN
     /\ chatHistory' = IF m # NoInstance
                         THEN [chatHistory EXCEPT ![m] = @ \o exchange]
                         ELSE chatHistory
     /\ appendedVia' = IF m # NoInstance
                         THEN [u \in Keys |->
                                 IF u \in returnedFor[m]
                                   THEN appendedVia[u] \cup Range(exchange)
                                   ELSE appendedVia[u]]
                         ELSE appendedVia
     /\ state' = [state EXCEPT ![r] = Merge(@, [agentOut |-> out])]
  /\ trace' = [trace EXCEPT ![r] = Append(@, Done("callAgent"))]
  /\ pc' = [pc EXCEPT ![r] = Successor("callAgent")]
  /\ UNCHANGED <<moduleVars, factoryVars, agentExecutorMemory, graph, userMemory, loaded,
                 attempts, waits, failures, error, initial, evicted, evictions,
                 clearedAbsent, startedAfter>>

\* AgentReturns, had saveContext replaced the history by the latest exchange
AgentReturnsOverwrite(r) ==
  /\ pc[r] = "awaitAgent"
  /\ LET out == AgentOutput(state[r].input, loaded[r])
         m == agentExecutorMemory
         exchange == <<HumanMessage(r, state[r].input), AIMessage(r, out)>>
     IN
     /\ chatHistory' = IF m # NoInstance
                         THEN [chatHistory EXCEPT ![m] = exchange]
                         ELSE chatHistory
     /\ appendedVia' = IF m # NoInstance
                         THEN [u \in Keys |->
                                 IF u \in returnedFor[m]
                                   THEN appendedVia[u] \cup Range(exchange)
                                   ELSE appendedVia[u]]
                         ELSE appendedVia
     /\ state' = [state EXCEPT ![r] = Merge(@, [agentOut |-> out])]
  /\ trace' = [trace EXCEPT ![r] = Append(@, Done("callAgent"))]
  /\ pc' = [pc EXCEPT ![r] = Successor("callAgent")]
  /\ UNCHANGED <<moduleVars, factoryVars, agentExecutorMemory, graph, userMemory, loaded,
                 attempts, waits, failures, error, initial, evicted, evictions,
                 clearedAbsent, startedAfter>>

\* AgentReturns, had saveContext appended the output before the input
AgentReturnsOutputFirst(r) ==
  /\ pc[r] = "awaitAgent"
  /\ LET out == AgentOutput(state[r].input, loaded[r])
         m == agentExecutorMemory
         exchange == <<AIMessage(r, out), HumanMessage(r, state[r].input)>>
     IN
     /\ chatHistory' = IF m # NoInstance
                         THEN [chatHistory EXCEPT ![m] = @ \o exchange]
                         ELSE chatHistory
     /\ appendedVia' = IF m # NoInstance
                         THEN [u \in Keys |->
                                 IF u \in returnedFor[m]
                                   THEN appendedVia[u] \cup Range(exchange)
                                   ELSE appendedVia[u]]
                         ELSE appendedVia
     /\ state' = [state EXCEPT ![r] = Merge(@, [agentOut |-> out])]
  /\ trace' = [trace EXCEPT ![r] = Append(@, Done("callAgent"))]
  /\ pc' = [pc EXCEPT ![r] = Successor("callAgent")]
  /\ UNCHANGED <<moduleVars, factoryVars, agentExecutorMemory, graph, userMemory, loaded,
                 attempts, waits, failures, error, initial, evicted, evictions,
                 clearedAbsent, startedAfter>>

\* agentExecutor.invoke resolves. The executor reads its memory field twice:
\* when invoke is called, to load chat_history (CallAgent), and after the agent
\* has answered, to save the exchange; the second read sees whatever memory is
\* attached by then. callAgent then returns {agentOut} and it is merged.
AgentReturns(r) ==
  /\ pc[r] = "awaitAgent"
  /\ LET out == AgentOutput(state[r].input, loaded[r])
         m == agentExecutorMemory
         exchange == <<HumanMessage(r, state[r].input), AIMessage(r, out)>>
     IN
     /\ chatHistory' = IF m # NoInstance
                         THEN [chatHistory EXCEPT ![m] = @ \o exchange]
                         ELSE chatHistory
     /\ appendedVia' = IF m # NoInstance
                         THEN [u \in Keys |->
                                 IF u \in returnedFor[m]
                                   THEN appendedVia[u] \cup Range(exchange)
                                   ELSE appendedVia[u]]
                         ELSE appendedVia
     /\ state' = [state EXCEPT ![r] = Merge(@, [agentOut |-> out])]
  /\ trace' = [trace EXCEPT ![r] = Append(@, Done("callAgent"))]
  /\ pc' = [pc EXCEPT ![r] = Successor("callAgent")]
  /\ UNCHANGED <<moduleVars, factoryVars, agentExecutorMemory, graph, userMemory, loaded,
                 attempts, waits, failures, error, initial, evicted, evictions,
                 clearedAbsent, startedAfter>>

\* AgentThrows, had the graph swallowed an unrecovered error and gone on to
\* the next step
AgentThrowsSwallowed(r, jitter) ==
  /\ pc[r] = "awaitAgent"
  /\ failures' = [failures EXCEPT ![r] = @ + 1]
  /\ trace' = [trace EXCEPT ![r] = Append(@, Fail("callAgent"))]
  /\ IF RetryAllowed(graph[r], attempts[r])
       THEN /\ waits' = [waits EXCEPT ![r] = Append(@, Delay(attempts[r]) + jitter)]
            /\ pc' = [pc EXCEPT ![r] = "callAgent"]
            /\ error' = error
       ELSE /\ jitter = 0
            /\ waits' = waits
            /\ pc' = [pc EXCEPT ![r] = Successor("callAgent")]
            /\ error' = error
  /\ UNCHANGED <<moduleVars, factoryVars, historyVars, agentExecutorMemory, graph, state,
                 userMemory, loaded, attempts, initial, evicted, evictions,
                 clearedAbsent, startedAfter>>

\* agentExecutor.invoke rejects: nothing is saved. Under the retry policy the
\* runtime sleeps Delay + jitter and enters the body again while attempts
\* remain; otherwise the error aborts the run
AgentThrows(r, jitter) ==
  /\ pc[r] = "awaitAgent"
  /\ failures' = [failures EXCEPT ![r] = @ + 1]
  /\ trace' = [trace EXCEPT ![r] = Append(@, Fail("callAgent"))]
  /\ IF RetryAllowed(graph[r], attempts[r])
       THEN /\ waits' = [waits EXCEPT ![r] = Append(@, Delay(attempts[r]) + jitter)]
            /\ pc' = [pc EXCEPT ![r] = "callAgent"]
            /\ error' = error
       ELSE /\ jitter = 0
            /\ waits' = waits
            /\ pc' = [pc EXCEPT ![r] = "error"]
            /\ error' = [error EXCEPT ![r] = attempts[r]]
  /\ UNCHANGED <<moduleVars, factoryVars, historyVars, agentExecutorMemory, graph, state,
                 userMemory, loaded, attempts, initial, evicted, evictions,
                 clearedAbsent, startedAfter>>

\* node return
Return(r) ==
  /\ pc[r] = "return"
  /\ state' = [state EXCEPT ![r] = Merge(@, return(@))]
  /\ trace' = [trace EXCEPT ![r] = @ \o <<Enter("return"), Done("return")>>]
  /\ pc' = [pc EXCEPT ![r] = Successor("return")]
  /\ UNCHANGED <<moduleVars, factoryVars, historyVars, agentExecutorMemory, graph,
                 userMemory, loaded, attempts, waits, failures, error, initial,
                 evicted, evictions,
                 clearedAbsent, startedAfter>>

\* clearUserMemory(userId) -> memoryFactory.clearMemory(userId)
ClearUserMemory(u) ==
  /\ memoryInstances[u] # NoInstance => evictions < MaxEvictions
  /\ LET c == clearMemory(u) IN
     /\ chatHistory' = c.chatHistory
     /\ memoryInstances' = c.memoryInstances
     /\ evictions' = IF c.memoryInstances # memoryInstances
                       THEN evictions + 1 ELSE evictions
  /\ evicted' = [r \in Runs |->
                   evicted[r] \/ (memoryInstances[u] # NoInstance
                                  /\ userMemory[r] = memoryInstances[u])]
  /\ clearedAbsent' = (clearedAbsent \/ memoryInstances[u] = NoInstance)
  /\ UNCHANGED <<moduleVars, nextInstance, returnedFor, appendedVia, agentExecutorMemory,
                 pc, graph, state, userMemory, loaded, attempts, waits,
                 failures, error, initial, trace, startedAfter>>

\* events of the attempt of callAgent the run is in
AttemptEvents(r) ==
  LET t == trace[r]
      last == CHOOSE i \in 1..Len(t) :
                /\ t[i] = Enter("callAgent")
                /\ \A j \in (i + 1)..Len(t) : t[j] # Enter("callAgent")
  IN SubSeq(t, last + 1, Len(t))
ToolCalls(r, t) ==
  Cardinality({i \in 1..Len(AttemptEvents(r)) : AttemptEvents(r)[i].node = t})

\* the agent calls refundPayment while agentExecutor.invoke is pending:
\* stripe.refunds.create is sent, without an idempotency key, and succeeds.
\* (A refund that Stripe rejects makes the tool throw: AgentThrows.)
RefundTool(r) ==
  /\ pc[r] = "awaitAgent"
  /\ state[r].input = RefundInput
  /\ ToolCalls(r, "refundPayment") < MaxToolCalls
  /\ trace' = [trace EXCEPT ![r] = Append(@, ToolRan("refundPayment"))]
  /\ UNCHANGED <<moduleVars, factoryVars, historyVars, agentExecutorMemory, pc, graph,
                 state, userMemory, loaded, attempts, waits, failures, error,
                 initial, evicted, evictions, clearedAbsent, startedAfter>>

\* the agent calls searchBooks while agentExecutor.invoke is pending. A fetch
\* that fails (network error, or a status that is not ok and is thrown) is
\* caught inside searchBooks, which then returns []; the tool returns the
\* stringified list either way and the agent goes on
BooksTool(r, fetchOk) ==
  /\ pc[r] = "awaitAgent"
  /\ state[r].input \in Inputs
  /\ ToolCalls(r, "searchBooks") < MaxToolCalls
  /\ trace' = [trace EXCEPT ![r] =
                 Append(@, IF fetchOk THEN ToolRan("searchBooks")
                                      ELSE FetchFailed("searchBooks"))]
  /\ UNCHANGED <<moduleVars, factoryVars, historyVars, agentExecutorMemory, pc, graph,
                 state, userMemory, loaded, attempts, waits, failures, error,
                 initial, evicted, evictions, clearedAbsent, startedAfter>>

\* a caller awaits searchBooks(q) while the request behaves as resp
SearchBooks(q, resp) ==
  /\ booksCall' = [called |-> TRUE, query |-> q, response |-> resp,
                   outcome |-> searchBooks(q, resp)]
  /\ UNCHANGED <<factoryVars, historyVars, agentExecutorMemory, pc, graph,
                 state, userMemory, loaded, attempts, waits, failures, error,
                 initial, trace, evicted, evictions, clearedAbsent,
                 startedAfter, modulePc, loadTrace>>

\* ---- top-level code of day3/executor, run once when the module is imported
\* `await agentExecutor.invoke({input: 'Cancel order ... and suggest similar
\* novels'})` is called; no memory is attached yet
LoadInvoke ==
  /\ modulePc = "import"
  /\ modulePc' = "awaitAgent"
  /\ UNCHANGED <<factoryVars, historyVars, agentExecutorMemory, pc, graph,
                 state, userMemory, loaded, attempts, waits, failures, error,
                 initial, trace, evicted, evictions, clearedAbsent,
                 startedAfter, loadTrace, booksCall>>

LoadToolCalls(t) ==
  Cardinality({i \in 1..Len(loadTrace) : loadTrace[i].node = t})

\* the agent calls refundPayment for the order of the module-level request
LoadRefundTool ==
  /\ modulePc = "awaitAgent"
  /\ LoadToolCalls("refundPayment") < MaxToolCalls
  /\ loadTrace' = Append(loadTrace, ToolRan("refundPayment"))
  /\ UNCHANGED <<factoryVars, historyVars, agentExecutorMemory, pc, graph,
                 state, userMemory, loaded, attempts, waits, failures, error,
                 initial, trace, evicted, evictions, clearedAbsent,
                 startedAfter, modulePc, booksCall>>

\* the agent calls searchBooks for the novels of the module-level request
LoadBooksTool(fetchOk) ==
  /\ modulePc = "awaitAgent"
  /\ LoadToolCalls("searchBooks") < MaxToolCalls
  /\ loadTrace' = Append(loadTrace, IF fetchOk THEN ToolRan("searchBooks")
                                               ELSE FetchFailed("searchBooks"))
  /\ UNCHANGED <<factoryVars, historyVars, agentExecutorMemory, pc, graph,
                 state, userMemory, loaded, attempts, waits, failures, error,
                 initial, trace, evicted, evictions, clearedAbsent,
                 startedAfter, modulePc, booksCall>>

\* the module-level call resolves: the response is logged, agentExecutor is
\* exported and the importing graph modules go on to build their graphs
LoadReturns ==
  /\ modulePc = "awaitAgent"
  /\ modulePc' = "loaded"
  /\ UNCHANGED <<factoryVars, historyVars, agentExecutorMemory, pc, graph,
                 state, userMemory, loaded, attempts, waits, failures, error,
                 initial, trace, evicted, evictions, clearedAbsent,
                 startedAfter, loadTrace, booksCall>>

\* the module-level call rejects: the top-level await throws, the import of
\* day3/executor and of every graph module fails, and no graph exists
LoadThrows ==
  /\ modulePc = "awaitAgent"
  /\ modulePc' = "failed"
  /\ UNCHANGED <<factoryVars, historyVars, agentExecutorMemory, pc, graph,
                 state, userMemory, loaded, attempts, waits, failures, error,
                 initial, trace, evicted, evictions, clearedAbsent,
                 startedAfter, loadTrace, booksCall>>

\* what `await graph.invoke(...)` gives its caller: the final state once the
\* run is at __end__, a rejection with the error that aborted the run, or
\* nothing yet
invokeResult(r) ==
  IF pc[r] = "__end__" THEN [status |-> "fulfilled", value |-> state[r]]
  ELSE IF pc[r] = "error" THEN [status |-> "rejected", reason |-> ThrownError(error[r])]
  ELSE [status |-> "pending"]

\* the runs and the eviction, with backoff timers that fire on time; every
\* caller of scalableAgentGraph passes the userId of a user
Next ==
  \/ \E r \in Runs, g \in Graphs, in \in Inputs, u \in Users : Invoke(r, g, in, u)
  \/ \E r \in Runs : EchoInput(r)
  \/ \E r \in Runs : CallAgent(r)
  \/ \E r \in Runs : AgentReturns(r)
  \/ \E r \in Runs : AgentThrows(r, 0)
  \/ \E r \in Runs : Return(r)
  \/ \E u \in Users : ClearUserMemory(u)

Spec == Init /\ [][Next]_vars

\* the same, with callers that may also pass an empty userId or none
NextAnyKey ==
  \/ \E r \in Runs, g \in Graphs, in \in Inputs, u \in Keys : Invoke(r, g, in, u)
  \/ \E r \in Runs : EchoInput(r)
  \/ \E r \in Runs : CallAgent(r)
  \/ \E r \in Runs : AgentReturns(r)
  \/ \E r \in Runs : AgentThrows(r, 0)
  \/ \E r \in Runs : Return(r)
  \/ \E u \in Keys : ClearUserMemory(u)

SpecAnyKey == Init /\ [][NextAnyKey]_vars

\* the runs alone, with backoff timers that may fire late
NextTimed ==
  \/ \E r \in Runs, g \in Graphs, in \in Inputs, u \in Users : Invoke(r, g, in, u)
  \/ \E r \in Runs : EchoInput(r)
  \/ \E r \in Runs : CallAgent(r)
  \/ \E r \in Runs : AgentReturns(r)
  \/ \E r \in Runs, jitter \in {0, MaxJitter} : AgentThrows(r, jitter)
  \/ \E r \in Runs : Return(r)

SpecTimed == Init /\ [][NextTimed]_vars

\* the runs alone, all for one user, with the tool calls the agent makes during
\* an attempt
NextTools ==
  \/ \E r \in Runs, g \in Graphs, in \in ToolInputs : Invoke(r, g, in, UserOf[1])
  \/ \E r \in Runs : EchoInput(r)
  \/ \E r \in Runs : CallAgent(r)
  \/ \E r \in Runs : RefundTool(r)
  \/ \E r \in Runs, fetchOk \in BOOLEAN : BooksTool(r, fetchOk)
  \/ \E r \in Runs : AgentReturns(r)
  \/ \E r \in Runs : AgentThrows(r, 0)
  \/ \E r \in Runs : Return(r)

SpecTools == Init /\ [][NextTools]_vars

\* calls of searchBooks alone, whatever the query and the request's behaviour
NextBooks == \E q \in Queries, resp \in Responses : SearchBooks(q, resp)

SpecBooks == Init /\ [][NextBooks]_vars

\* the import of the modules, then runs of the graphs for one user
NextLoad ==
  \/ LoadInvoke
  \/ LoadRefundTool
  \/ \E fetchOk \in BOOLEAN : LoadBooksTool(fetchOk)
  \/ LoadReturns
  \/ LoadThrows
  \/ \E r \in Runs, g \in Graphs : Invoke(r, g, "search X", UserOf[1])
  \/ \E r \in Runs : EchoInput(r)
  \/ \E r \in Runs : CallAgent(r)
  \/ \E r \in Runs : AgentReturns(r)
  \/ \E r \in Runs : AgentThrows(r, 0)
  \/ \E r \in Runs : Return(r)

SpecLoad == InitLoad /\ [][NextLoad]_vars

\* runs of the three graphs for one user
NextLive ==
  \/ \E r \in Runs, g \in Graphs : Invoke(r, g, "search X", UserOf[1])
  \/ \E r \in Runs : EchoInput(r)
  \/ \E r \in Runs : CallAgent(r)
  \/ \E r \in Runs : AgentReturns(r)
  \/ \E r \in Runs : AgentThrows(r, 0)
  \/ \E r \in Runs : Return(r)

\* The event loop runs every continuation that is ready: a synchronous node
\* body whose predecessor has merged, and the callAgent body when its backoff
\* timer, a finite wait, has fired. Every agent call that was started
\* eventually resolves or rejects.
Fairness ==
  \A r \in Runs :
    /\ WF_vars(EchoInput(r))
    /\ WF_vars(CallAgent(r))
    /\ WF_vars(AgentReturns(r) \/ AgentThrows(r, 0))
    /\ WF_vars(Return(r))

SpecLive == Init /\ [][NextLive]_vars /\ Fairness

TypeOK ==
  /\ memoryInstances \in [Keys -> Instances \cup {NoInstance}]
  /\ nextInstance \in Instances
  /\ agentExecutorMemory \in Instances \cup {NoInstance}
  /\ pc \in [Runs -> {"idle", "echoInput", "callAgent", "awaitAgent", "return",
                      "__end__", "error"}]
  /\ \A r \in Runs : attempts[r] \in 0..MaxAttempts
  /\ modulePc \in {"import", "awaitAgent", "loaded", "failed"}
  /\ Len(loadTrace) <= 2 * MaxToolCalls
  /\ booksCall.query \in Queries
  /\ booksCall.response \in Responses
  /\ Len(booksCall.outcome.value) <= MaxItems

\* ================================================================ claims
EnterCount(r, n) == Cardinality({i \in 1..Len(trace[r]) : trace[r][i] = Enter(n)})
DoneCount(r, n) == Cardinality({i \in 1..Len(trace[r]) : trace[r][i] = Done(n)})
Completed(r, n) == Done(n) \in Range(trace[r])
IsDone(e) == e.ev = "done"
Merges(r) == SelectSeq(trace[r], IsDone)
IsPrefix(s, t) == Len(s) <= Len(t) /\ \A i \in 1..Len(s) : s[i] = t[i]
EdgeOrder == <<Done("echoInput"), Done("callAgent"), Done("return")>>
Rank(n) == CASE n = "echoInput" -> 1 [] n = "callAgent" -> 2 [] n = "return" -> 3
Scalable(r) == graph[r] = "scalableAgentGraph"
\* run r holds a store obtained for its user and not evicted since
LiveHandle(r) == Scalable(r) /\ userMemory[r] # NoInstance /\ ~evicted[r]

\* C1: isolation of the factory. For distinct userIds u1 and u2, no message
\* appended to a store that createMemory returned for u1 is held by a store
\* that createMemory returned for u2.
C1_FactoryIsolation ==
  \A u1 \in Users, u2 \in Users : u1 # u2 =>
    \A i \in Instances : u2 \in returnedFor[i] =>
      \A k \in 1..Len(chatHistory[i]) : chatHistory[i][k] \notin appendedVia[u1]

\* both users have a store and both stores hold messages
C1_Witness ==
  \E u1 \in Users, u2 \in Users :
    /\ u1 # u2
    /\ memoryInstances[u1] # NoInstance /\ memoryInstances[u2] # NoInstance
    /\ chatHistory[memoryInstances[u1]] # <<>>
    /\ chatHistory[memoryInstances[u2]] # <<>>
    /\ appendedVia[u1] # {} /\ appendedVia[u2] # {}

\* C2: runs of scalableAgentGraph for different users are independent: every
\* exchange held by (and so every history loaded from) a store returned for
\* user u was saved by a run invoked with userId = u.
C2_RunsIndependent ==
  \A i \in Instances : \A u \in returnedFor[i] :
    \A k \in 1..Len(chatHistory[i]) :
      Scalable(chatHistory[i][k].run) => initial[chatHistory[i][k].run].userId = u

\* C3: retry success path. Under the retry policy a callAgent that throws k
\* times, k < maxAttempts, and then resolves completes with the output of the
\* resolving attempt after exactly k+1 entries of its body and k waits; the
\* run is not aborted while k < maxAttempts.
C3_RetrySuccess ==
  \A r \in Runs : HasRetryPolicy(graph[r]) =>
    /\ Completed(r, "callAgent") =>
         /\ failures[r] < MaxAttempts
         /\ EnterCount(r, "callAgent") = failures[r] + 1
         /\ Len(waits[r]) = failures[r]
         /\ state[r].agentOut = AgentOutput(initial[r].input, loaded[r])
    /\ failures[r] < MaxAttempts => pc[r] # "error"

\* a Day-5 run that ended after two failed attempts
C3_Witness ==
  \E r \in Runs :
    HasRetryPolicy(graph[r]) /\ pc[r] = "__end__" /\ failures[r] = MaxAttempts - 1

\* C4: retry exhaustion. Under the retry policy the callAgent body is entered
\* at most maxAttempts times; a run whose every attempt threw is aborted after
\* exactly maxAttempts entries, by the error of the last attempt.
C4_RetryExhaustion ==
  \A r \in Runs : HasRetryPolicy(graph[r]) =>
    /\ EnterCount(r, "callAgent") <= MaxAttempts
    /\ pc[r] = "error" =>
         /\ EnterCount(r, "callAgent") = MaxAttempts
         /\ failures[r] = MaxAttempts
         /\ error[r] = MaxAttempts
         /\ ~Completed(r, "callAgent")
    /\ failures[r] = MaxAttempts => pc[r] = "error"

\* a Day-5 run aborted by its third failure
C4_Witness ==
  \E r \in Runs : HasRetryPolicy(graph[r]) /\ pc[r] = "error" /\ attempts[r] = MaxAttempts

RECURSIVE SumFirst(_, _)
SumFirst(s, n) == IF n = 0 THEN 0 ELSE s[n] + SumFirst(s, n - 1)
\* offset from the first attempt at which attempt n started
Offset(r, n) == SumFirst(waits[r], n - 1)
BackoffSeries ==
  (InitialInterval * (BackoffFactor ^ (MaxAttempts - 1) - 1)) \div (BackoffFactor - 1)

\* C5: backoff schedule. The wait after the n-th failed attempt is at least
\* initialInterval * backoffFactor^(n-1), whatever the timer adds; a run that
\* exhausts the policy made its attempts at offsets 0, at least 1 and at least
\* 3 initial intervals, so it waited at least the sum of the backoff series.
C5_BackoffSchedule ==
  \A r \in Runs :
    /\ \A n \in 1..Len(waits[r]) : waits[r][n] >= InitialInterval * BackoffFactor ^ (n - 1)
    /\ (HasRetryPolicy(graph[r]) /\ pc[r] = "error") =>
         /\ Len(waits[r]) = MaxAttempts - 1
         /\ Offset(r, 1) = 0
         /\ Offset(r, 2) >= 1 * InitialInterval
         /\ Offset(r, 3) >= 3 * InitialInterval
         /\ Offset(r, MaxAttempts) >= BackoffSeries

\* a run that exhausted the policy and whose timers both fired late
C5_Witness ==
  \E r \in Runs :
    /\ pc[r] = "error" /\ Len(waits[r]) = 2
    /\ waits[r][1] > InitialInterval
    /\ waits[r][2] > InitialInterval * BackoffFactor

\* C6: step ordering within a run. Bodies are entered in the order echoInput,
\* callAgent, return; a body is entered only after its predecessor's update was
\* merged; and what follows the entry of a body in the run is the end of that
\* same body, so nothing of the run executes while callAgent is suspended.
C6_StepOrdering ==
  \A r \in Runs :
    LET t == trace[r] IN
    /\ \A i \in 1..Len(t), j \in 1..Len(t) : i < j => Rank(t[i].node) <= Rank(t[j].node)
    /\ \A i \in 1..Len(t) :
         (t[i].ev = "enter" /\ Rank(t[i].node) > 1) =>
           \E j \in 1..(i - 1) : t[j].ev = "done" /\ Rank(t[j].node) = Rank(t[i].node) - 1
    /\ \A i \in 1..(Len(t) - 1) :
         t[i].ev = "enter" => (t[i + 1].node = t[i].node /\ t[i + 1].ev \in {"done", "fail"})
    /\ pc[r] = "awaitAgent" => (Len(t) > 0 /\ t[Len(t)] = Enter("callAgent"))
    /\ pc[r] = "__end__" => Merges(r) = EdgeOrder

\* a run that reached the end through a retried callAgent
C6_Witness ==
  \E r \in Runs : pc[r] = "__end__" /\ failures[r] > 0 /\ Len(trace[r]) > 6

\* C7 as stated: no node body is entered twice in a run.
C7_NoStepTwice ==
  \A r \in Runs : \A n \in Nodes : EnterCount(r, n) <= 1

\* C7 amended: echoInput and return are entered at most once per run, callAgent
\* once per attempt: at most once in agentGraph and at most maxAttempts times
\* in the Day-5 graphs; each node's update is merged at most once, in edge order.
C7_OncePerAttempt ==
  \A r \in Runs :
    /\ EnterCount(r, "echoInput") <= 1
    /\ EnterCount(r, "return") <= 1
    /\ EnterCount(r, "callAgent") = attempts[r]
    /\ EnterCount(r, "callAgent") <= (IF HasRetryPolicy(graph[r]) THEN MaxAttempts ELSE 1)
    /\ graph[r] = "agentGraph" => EnterCount(r, "callAgent") <= 1
    /\ \A n \in Nodes : DoneCount(r, n) <= 1
    /\ IsPrefix(Merges(r), EdgeOrder)

\* a run that ended after entering callAgent three times
C7_Witness ==
  \E r \in Runs : pc[r] = "__end__" /\ EnterCount(r, "callAgent") = MaxAttempts

\* C8: state merge. After every step each channel holds the last value
\* returned for it and every other channel its previous value: input and
\* userId are those of the invocation throughout, chat_history is never
\* written, and agentOut is unset until callAgent returns it.
C8_MergeOverwrite ==
  \A r \in Runs : pc[r] # "idle" =>
    /\ state[r].input = initial[r].input
    /\ state[r].input \in Inputs
    /\ state[r].userId = initial[r].userId
    /\ Scalable(r) => state[r].userId \in Keys
    /\ state[r].chat_history = Unset
    /\ state[r].agentOut =
         IF Completed(r, "callAgent")
           THEN AgentOutput(initial[r].input, loaded[r]) ELSE Unset

\* a finished scalableAgentGraph run: input, userId and agentOut all present
C8_Witness ==
  \E r \in Runs :
    /\ pc[r] = "__end__" /\ Scalable(r)
    /\ state[r].input \in Inputs
    /\ state[r].userId \in Users
    /\ state[r].agentOut # Unset

\* stores held for user u: the registry entry and the handles not evicted since
LiveStores(u) ==
  ({memoryInstances[u]} \ {NoInstance})
    \cup {userMemory[r] : r \in {q \in Runs : LiveHandle(q) /\ initial[q].userId = u}}

\* C9: identity stability. The registry holds at most one store per userId,
\* and createMemory(u) calls with no clearMemory(u) between them return the same
\* instance: all handles obtained for u since its last eviction are the
\* registry's entry, so they read the same history.
C9_IdentityStability ==
  /\ \A u \in Users : Cardinality(LiveStores(u)) <= 1
  /\ \A r \in Runs : LiveHandle(r) => userMemory[r] = memoryInstances[initial[r].userId]
  /\ \A r1 \in Runs, r2 \in Runs :
       (LiveHandle(r1) /\ LiveHandle(r2) /\ initial[r1].userId = initial[r2].userId)
         => chatHistory[userMemory[r1]] = chatHistory[userMemory[r2]]

\* the second run of a user loaded, through its own handle, the exchange the
\* first run appended through its handle
C9_Witness ==
  \E r1 \in Runs, r2 \in Runs :
    /\ r1 # r2 /\ LiveHandle(r1) /\ LiveHandle(r2)
    /\ initial[r1].userId = initial[r2].userId
    /\ userMemory[r1] = userMemory[r2]
    /\ \E k \in 1..Len(loaded[r2]) : loaded[r2][k].run = r1

\* C10: single winner. The factory has created exactly one BufferMemory per
\* registry entry, present or evicted, and runs suspended in callAgent at the
\* same time for the same userId hold the same store.
C10_SingleWinner ==
  /\ nextInstance - FirstFactoryInstance =
       Cardinality({u \in Keys : memoryInstances[u] # NoInstance}) + evictions
  /\ \A r1 \in Runs, r2 \in Runs :
       (/\ pc[r1] = "awaitAgent" /\ pc[r2] = "awaitAgent"
        /\ LiveHandle(r1) /\ LiveHandle(r2)
        /\ initial[r1].userId = initial[r2].userId)
         => userMemory[r1] = userMemory[r2]

\* two runs for one unseen user, both suspended in their first attempt, and one
\* store created
C10_Witness ==
  \E r1 \in Runs, r2 \in Runs :
    /\ r1 # r2
    /\ pc[r1] = "awaitAgent" /\ pc[r2] = "awaitAgent"
    /\ Scalable(r1) /\ Scalable(r2)
    /\ initial[r1].userId = initial[r2].userId
    /\ attempts[r1] = 1 /\ attempts[r2] = 1
    /\ evictions = 0
    /\ nextInstance = FirstFactoryInstance + 1

\* C11: eviction resets. clearUserMemory for a user that has a store lowers the
\* user count of getMemoryStats by exactly one and removes the user's entry;
\* a createMemory for a user without an entry then returns a BufferMemory that
\* was never returned before, registers it, and its history is empty.
C11_EvictionResets ==
  [][/\ \A u \in Users :
         (ClearUserMemory(u) /\ memoryInstances[u] # NoInstance) =>
           /\ getMemoryStats'.totalUsers = getMemoryStats.totalUsers - 1
           /\ memoryInstances'[u] = NoInstance
     /\ \A r \in Runs :
         (CallAgent(r) /\ Scalable(r) /\ memoryInstances[state[r].userId] = NoInstance) =>
           /\ returnedFor[userMemory'[r]] = {}
           /\ chatHistory'[userMemory'[r]] = <<>>
           /\ loaded'[r] = <<>>
           /\ memoryInstances'[state[r].userId] = userMemory'[r]]_vars

\* a user whose store held an exchange was evicted and then served again: a
\* second BufferMemory was returned for the user, registered, and it is empty
C11_Witness ==
  \E u \in Users :
    /\ evictions = 1
    /\ appendedVia[u] # {}
    /\ memoryInstances[u] # NoInstance
    /\ Cardinality({i \in Instances : u \in returnedFor[i]}) = 2
    /\ chatHistory[memoryInstances[u]] = <<>>
    /\ getMemoryStats.totalUsers = 1

\* C12: clearing an absent user is a silent no-op. clearUserMemory for a user
\* with no store can always be called and completes; it leaves the registry,
\* every history, the object counter and the result of getMemoryStats as they
\* were, and no run is moved or aborted by it.
C12_ClearAbsentNoOp ==
  /\ [](\A u \in Users : memoryInstances[u] = NoInstance => ENABLED ClearUserMemory(u))
  /\ [][\A u \in Users :
          (ClearUserMemory(u) /\ memoryInstances[u] = NoInstance) =>
            /\ UNCHANGED <<memoryInstances, chatHistory, nextInstance>>
            /\ getMemoryStats' = getMemoryStats
            /\ UNCHANGED <<pc, state, error, userMemory, evicted>>]_vars

\* clearUserMemory was called for a user without a store while another user's
\* store was registered and held an exchange
C12_Witness ==
  /\ clearedAbsent
  /\ evictions = 0
  /\ \E u \in Users : memoryInstances[u] = NoInstance
  /\ \E u \in Users :
       /\ memoryInstances[u] # NoInstance
       /\ chatHistory[memoryInstances[u]] # <<>>

\* C13: stats accuracy. totalUsers and totalInstances of getMemoryStats are
\* equal, and equal to the number of distinct userIds for which createMemory
\* has been called and clearMemory has not been called since.
C13_StatsAccuracy ==
  /\ getMemoryStats.totalUsers = getMemoryStats.totalInstances
  /\ getMemoryStats.totalUsers =
       Cardinality({initial[r].userId : r \in {q \in Runs : LiveHandle(q)}})

\* createMemory was called for two users and one of them was cleared since:
\* the stats count one
C13_Witness ==
  /\ evictions = 1
  /\ getMemoryStats.totalUsers = 1
  /\ \E r1 \in Runs, r2 \in Runs :
       /\ Scalable(r1) /\ Scalable(r2)
       /\ initial[r1].userId # initial[r2].userId
       /\ LiveHandle(r1)
       /\ userMemory[r2] # NoInstance /\ evicted[r2]

\* C14: key validity. createMemory creates no registry entry for an empty or
\* missing userId, and a run that passes one gets no store from it: its
\* callAgent fails instead of calling the agent.
C14_KeyValidation ==
  /\ \A k \in InvalidIds : memoryInstances[k] = NoInstance
  /\ \A r \in Runs :
       (Scalable(r) /\ initial[r].userId \in InvalidIds) =>
         /\ userMemory[r] = NoInstance
         /\ pc[r] # "awaitAgent"

FailsUpTo(r, i) == Cardinality({j \in 1..i : trace[r][j].ev = "fail"})

\* C15: a failing step aborts the run. After a throw of a step the only thing
\* a run ever does is a retry of callAgent under the Day-5 policy while
\* attempts remain; a throw of the Day-4 callAgent, or the throw of the last
\* Day-5 attempt, ends the run: no later step is entered, invoke rejects with
\* the error object the last attempt threw and with nothing else, and no
\* output was merged.
C15_FailingStepAborts ==
  \A r \in Runs :
    /\ \A i \in 1..(Len(trace[r]) - 1) :
         trace[r][i].ev = "fail" =>
           /\ trace[r][i + 1] = Enter("callAgent")
           /\ graph[r] # "agentGraph"
           /\ FailsUpTo(r, i) < MaxAttempts
    /\ (failures[r] > 0 /\ (graph[r] = "agentGraph" \/ failures[r] = MaxAttempts))
         => pc[r] = "error"
    /\ pc[r] = "error" =>
         /\ trace[r][Len(trace[r])] = Fail("callAgent")
         /\ EnterCount(r, "return") = 0
         /\ invokeResult(r) = [status |-> "rejected", reason |-> ThrownError(failures[r])]
         /\ state[r].agentOut = Unset

\* a Day-4 run aborted by the first throw of callAgent and a Day-5 run aborted
\* by the throw of its last attempt
C15_Witness ==
  \E r1 \in Runs, r2 \in Runs :
    /\ graph[r1] = "agentGraph" /\ pc[r1] = "error" /\ failures[r1] = 1
    /\ graph[r2] = "scalableAgentGraph" /\ pc[r2] = "error"
    /\ failures[r2] = MaxAttempts

\* C16: typed outcome. A run that is over either returned a final state that
\* carries the output, or was rejected with a typed error that names the
\* failing step and carries the number of attempts made.
C16_TypedOutcome ==
  \A r \in Runs :
    /\ pc[r] = "__end__" =>
         /\ invokeResult(r).status = "fulfilled"
         /\ invokeResult(r).value.agentOut # Unset
    /\ pc[r] = "error" =>
         LET e == invokeResult(r).reason IN
         /\ invokeResult(r).status = "rejected"
         /\ e.name # "Error"
         /\ "step" \in DOMAIN e
         /\ "attempts" \in DOMAIN e
         /\ e.attempts = attempts[r]

\* C17: an invalid userId is never retried. A run of scalableAgentGraph with an
\* empty or missing userId enters callAgent at most once, never calls the
\* agent, sleeps no backoff wait, and is aborted by that single attempt.
C17_InvalidKeyNotRetried ==
  \A r \in Runs :
    (Scalable(r) /\ initial[r].userId \in InvalidIds) =>
      /\ attempts[r] <= 1
      /\ waits[r] = <<>>
      /\ pc[r] # "awaitAgent"
      /\ attempts[r] = 1 => pc[r] = "error"

\* run r overlapped no other run: every earlier run was over when r was
\* invoked and r was over when every later run was invoked
RanAlone(r) ==
  /\ \A q \in Runs : q < r => q \in startedAfter[r]
  /\ \A q \in Runs : (q > r /\ pc[q] # "idle") => r \in startedAfter[q]

\* C20: sequential cross-user isolation. When a run of scalableAgentGraph for
\* u1 that overlapped no other run is over, and scalableAgentGraph is then
\* invoked for another user u2, the chat history the executor loads for the
\* agent in u2's run holds no message of u1's run.
C20_SequentialIsolation ==
  \A r1 \in Runs, r2 \in Runs :
    (/\ Scalable(r1) /\ Scalable(r2)
     /\ RanAlone(r1)
     /\ r1 \in startedAfter[r2]
     /\ initial[r1].userId # initial[r2].userId)
      => \A k \in 1..Len(loaded[r2]) : loaded[r2][k].run # r1

\* u1's run completed and saved its exchange to u1's store; a run for u2 with
\* a different input, invoked afterwards, has loaded its history for the agent
C20_Witness ==
  \E r1 \in Runs, r2 \in Runs :
    /\ Scalable(r1) /\ Scalable(r2)
    /\ pc[r1] = "__end__"
    /\ r1 \in startedAfter[r2]
    /\ initial[r1].userId # initial[r2].userId
    /\ initial[r1].input # initial[r2].input
    /\ \E k \in 1..Len(chatHistory[userMemory[r1]]) :
         chatHistory[userMemory[r1]][k].run = r1
    /\ pc[r2] \in {"awaitAgent", "return", "__end__"}
    /\ loaded[r2] = <<>>

\* the exchange of a completed run: its input, then its output
ExchangeOf(r) ==
  <<HumanMessage(r, initial[r].input), AIMessage(r, state[r].agentOut)>>
\* history h holds the two messages of e next to each other, in order
HoldsExchange(h, e) ==
  \E k \in 1..(Len(h) - 1) : h[k] = e[1] /\ h[k + 1] = e[2]

\* C21: memory across invocations. When a run that overlapped no other run
\* has completed, and a later run of the same kind is invoked after it (on
\* scalableAgentGraph for the same userId with no eviction of that user's
\* store, or on agentGraphWithMemory), the history the executor loads for the
\* agent in the later run holds the first run's input followed by its output.
C21_MemoryAcrossRuns ==
  \A r1 \in Runs, r2 \in Runs :
    (/\ pc[r1] = "__end__" /\ RanAlone(r1)
     /\ r1 \in startedAfter[r2] /\ attempts[r2] >= 1
     /\ \/ /\ Scalable(r1) /\ Scalable(r2)
           /\ initial[r1].userId = initial[r2].userId
           /\ ~evicted[r1]
        \/ /\ graph[r1] = "agentGraphWithMemory"
           /\ graph[r2] = "agentGraphWithMemory")
      => HoldsExchange(loaded[r2], ExchangeOf(r1))

\* u1's first run has completed and u1's second run, invoked after it, has
\* loaded exactly that exchange
C21_Witness ==
  \E r1 \in Runs, r2 \in Runs :
    /\ Scalable(r1) /\ Scalable(r2)
    /\ initial[r1].userId = initial[r2].userId
    /\ pc[r1] = "__end__" /\ r1 \in startedAfter[r2]
    /\ evictions = 0
    /\ attempts[r2] >= 1
    /\ loaded[r2] = ExchangeOf(r1)

\* C22: end-to-end result. A run of scalableAgentGraph invoked with
\* {input: "search X", userId: "u1"} whose agent answered "found: X" returns a
\* final state whose agentOut is "found: X" and whose input is still
\* "search X" (and whose userId is still "u1").
C22_EndToEnd ==
  \A r \in Runs :
    (/\ Scalable(r) /\ pc[r] = "__end__"
     /\ initial[r].input = "search X" /\ initial[r].userId = "u1"
     /\ AgentOutput("search X", loaded[r]) = "found: X")
      => /\ invokeResult(r).status = "fulfilled"
         /\ invokeResult(r).value.agentOut = "found: X"
         /\ invokeResult(r).value.input = "search X"
         /\ invokeResult(r).value.userId = "u1"

\* such a run is over: echoInput, callAgent and return have all merged
C22_Witness ==
  \E r \in Runs :
    /\ Scalable(r) /\ pc[r] = "__end__"
    /\ initial[r].input = "search X" /\ initial[r].userId = "u1"
    /\ loaded[r] = <<>>
    /\ Merges(r) = EdgeOrder
    /\ state[r].agentOut = "found: X"

\* what the prompt shows of a history: role and text of each message
Content(h) == [k \in 1..Len(h) |-> [role |-> h[k].role, content |-> h[k].content]]

\* C23 as stated: two completed runs of one graph invoked with the same
\* initial state have identical final states.
C23_SameInputSameState ==
  \A r1 \in Runs, r2 \in Runs :
    (/\ pc[r1] = "__end__" /\ pc[r2] = "__end__"
     /\ graph[r1] = graph[r2]
     /\ initial[r1] = initial[r2])
      => state[r1] = state[r2]

\* C23, amended: two completed runs of one graph invoked with the same initial
\* state, whose agent was shown the same conversation history, have identical
\* final states.
C23_DeterminismGivenHistory ==
  \A r1 \in Runs, r2 \in Runs :
    (/\ pc[r1] = "__end__" /\ pc[r2] = "__end__"
     /\ graph[r1] = graph[r2]
     /\ initial[r1] = initial[r2]
     /\ Content(loaded[r1]) = Content(loaded[r2]))
      => state[r1] = state[r2]

\* two runs for one user with the same input, one after the other, the
\* user's store evicted in between: both were shown an empty history and
\* ended in the same state
C23_Witness ==
  \E r1 \in Runs, r2 \in Runs :
    /\ r1 # r2 /\ Scalable(r1) /\ Scalable(r2)
    /\ pc[r1] = "__end__" /\ pc[r2] = "__end__"
    /\ r1 \in startedAfter[r2]
    /\ initial[r1] = initial[r2]
    /\ evictions = 1
    /\ loaded[r1] = <<>> /\ loaded[r2] = <<>>
    /\ state[r1] = state[r2] /\ state[r1].agentOut # Unset

\* C24: each invocation owns its state. At every moment the input and userId
\* channels of a run hold what the run was invoked with, and its agentOut
\* channel is unset until its own callAgent has returned and from then on
\* holds the answer its own agent call produced; no step of another run shows
\* in them.
C24_OwnState ==
  \A r \in Runs :
    pc[r] # "idle" =>
      /\ state[r].input = initial[r].input
      /\ state[r].userId = initial[r].userId
      /\ state[r].agentOut =
           IF Completed(r, "callAgent")
             THEN AgentOutput(initial[r].input, loaded[r])
             ELSE Unset

\* two runs of scalableAgentGraph that overlapped, with different inputs and
\* users, both over, each with its own input, userId and output
C24_Witness ==
  \E r1 \in Runs, r2 \in Runs :
    /\ r1 < r2 /\ Scalable(r1) /\ Scalable(r2)
    /\ r1 \notin startedAfter[r2]
    /\ pc[r1] = "__end__" /\ pc[r2] = "__end__"
    /\ initial[r1].input # initial[r2].input
    /\ initial[r1].userId # initial[r2].userId
    /\ state[r1].agentOut # state[r2].agentOut

\* C25: retry refuses non-idempotent tools. Once refundPayment has been
\* executed in a run, callAgent is not entered again in that run, and so the
\* refund is performed at most once in the run.
C25_RefundNotRetried ==
  \A r \in Runs :
    /\ \A i \in 1..Len(trace[r]), j \in 1..Len(trace[r]) :
         (i < j /\ trace[r][i] = ToolRan("refundPayment"))
           => trace[r][j] # Enter("callAgent")
    /\ Cardinality({i \in 1..Len(trace[r]) :
                      trace[r][i] = ToolRan("refundPayment")}) <= 1

\* C26: no automatic expiry. In every step, a user's registered store either
\* stays registered under the user, with every message it held still at the
\* head of its history, or the step is clearUserMemory for that very user.
C26_NoAutomaticExpiry ==
  [][\A u \in Users :
       memoryInstances[u] # NoInstance =>
         \/ ClearUserMemory(u)
         \/ /\ memoryInstances'[u] = memoryInstances[u]
            /\ IsPrefix(chatHistory[memoryInstances[u]],
                        chatHistory'[memoryInstances[u]])]_vars

\* a user's store that holds the user's exchange is still registered after a
\* store was created for another user and both users' runs are over
C26_Witness ==
  \E r1 \in Runs, r2 \in Runs :
    /\ Scalable(r1) /\ Scalable(r2)
    /\ initial[r1].userId # initial[r2].userId
    /\ pc[r1] = "__end__" /\ pc[r2] = "__end__"
    /\ userMemory[r1] < userMemory[r2]
    /\ evictions = 0
    /\ memoryInstances[initial[r1].userId] = userMemory[r1]
    /\ HoldsExchange(chatHistory[userMemory[r1]], ExchangeOf(r1))

\* C27: the conversation history is append-only. In every step, every
\* BufferMemory's history after the step starts with its history before the
\* step (messages are only added, at the end), unless the step is the
\* eviction of the store by clearUserMemory.
C27_AppendOnly ==
  [][\A i \in Instances :
       \/ IsPrefix(chatHistory[i], chatHistory'[i])
       \/ \E u \in Users : ClearUserMemory(u) /\ memoryInstances[u] = i]_vars

\* a history that was appended to twice: it holds the exchanges of two runs
C27_Witness ==
  \E i \in Instances, r1 \in Runs, r2 \in Runs :
    /\ r1 # r2
    /\ Len(chatHistory[i]) = 4
    /\ chatHistory[i][1].run = r1 /\ chatHistory[i][2].run = r1
    /\ chatHistory[i][3].run = r2 /\ chatHistory[i][4].run = r2

C29_BooksFailureRetried ==
  \A r \in Runs :
    HasRetryPolicy(graph[r]) =>
      \A i \in 1..Len(trace[r]), j \in 1..Len(trace[r]) :
        (/\ i < j
         /\ trace[r][i] = FetchFailed("searchBooks")
         /\ trace[r][j] = Done("callAgent"))
          => \E k \in (i + 1)..(j - 1) : trace[r][k] = Fail("callAgent")

\* C30: the Day-4 graph is stateless. A run of agentGraph is shown no
\* conversation history and no BufferMemory holds a message of such a run.
C30_Day4Stateless ==
  \A r \in Runs :
    graph[r] = "agentGraph" =>
      /\ loaded[r] = <<>>
      /\ \A i \in Instances :
           \A k \in 1..Len(chatHistory[i]) : chatHistory[i][k].run # r
\* the items of the parsed body when the request succeeded and data.items is
\* an array, none otherwise
ItemsOf(resp) ==
  IF resp.fetch = "responds" /\ resp.ok /\ resp.json = "object" /\ resp.isArray
  THEN resp.items ELSE <<>>
RequestFailed(resp) == resp.fetch = "rejects" \/ ~resp.ok \/ resp.json # "object"
\* positions of the items that have a volumeInfo, in item order
WithInfo(l) == {i \in 1..Len(l) : l[i].truthy /\ l[i].hasInfo}

\* C31: searchBooks never raises. For every query its call resolves; when the
\* response is not OK, fetch rejects or the body cannot be parsed it returns
\* the empty list; otherwise the result has one entry per item that has a
\* volumeInfo, in item order, and so is no longer than the list of items.
C31_NeverRaises ==
  booksCall.called =>
    LET out == booksCall.outcome
        items == ItemsOf(booksCall.response)
    IN /\ out.raised = "none"
       /\ RequestFailed(booksCall.response) => out.value = <<>>
       /\ Len(out.value) = Cardinality(WithInfo(items))
       /\ Len(out.value) <= Len(items)
       /\ \A k \in 1..Len(out.value) :
            \E i \in WithInfo(items) :
              /\ Cardinality({j \in WithInfo(items) : j <= i}) = k
              /\ out.value[k] = BookEntry(items[i])
\* the messages of store i that run r's executor call saved
SavedBy(r, i) ==
  LET FromRun(m) == m.run = r IN SelectSeq(chatHistory[i], FromRun)

\* C32: failed attempts leave the conversation store untouched. While no
\* attempt of a scalableAgentGraph run has succeeded (attempts failed so far,
\* or all of them once the run is exhausted) no store holds a message of the
\* run; once an attempt has succeeded, after any number of failed ones, the
\* user's store the run obtained holds exactly one exchange of the run, unless
\* it was evicted since.
C32_FailedAttemptsLeaveStore ==
  \A r \in Runs : Scalable(r) =>
    /\ ~Completed(r, "callAgent") =>
         \A i \in Instances : SavedBy(r, i) = <<>>
    /\ (Completed(r, "callAgent") /\ ~evicted[r]) =>
         SavedBy(r, userMemory[r]) = ExchangeOf(r)
\* users with a registry entry in registry m
Registered(m) == {k \in Keys : m[k] # NoInstance}

\* C33: factory operations touch only their own user. In every state,
\* clearMemory(u) leaves the registry entry and the history of every other
\* user as they are, and createMemory(u) for a user that has a store returns
\* that store and changes neither the registry nor the statistics (it has no
\* access to any history).
C33_OnlyOwnUser ==
  \A u \in Users :
    /\ LET c == clearMemory(u) IN
         \A v \in Users \ {u} :
           /\ c.memoryInstances[v] = memoryInstances[v]
           /\ memoryInstances[v] # NoInstance =>
                c.chatHistory[c.memoryInstances[v]] = chatHistory[memoryInstances[v]]
    /\ memoryInstances[u] # NoInstance =>
         LET m == createMemory(u) IN
           /\ m.memory = memoryInstances[u]
           /\ m.memoryInstances = memoryInstances
           /\ m.nextInstance = nextInstance
           /\ Cardinality(Registered(m.memoryInstances)) = getMemoryStats.totalUsers
           /\ Cardinality(Registered(m.memoryInstances)) = getMemoryStats.totalInstances

\* a user's store was evicted while another user's store held messages, and
\* that store and its messages are still there
C33_Witness ==
  /\ evictions = 1
  /\ \E r \in Runs, v \in Users :
       /\ evicted[r] /\ initial[r].userId # v
       /\ memoryInstances[initial[r].userId] = NoInstance
       /\ memoryInstances[v] # NoInstance
       /\ Len(chatHistory[memoryInstances[v]]) = 2
\* C34: echoInput and return are identity steps. The update either node
\* returns changes no field of the state it is given, so the state of a run
\* is the argument of invoke until callAgent completes (agentOut unset), and
\* from then on to the end of the run it is that argument with agentOut set
\* to the output of the successful agent call.
C34_IdentitySteps ==
  \A r \in Runs : pc[r] # "idle" =>
    /\ Merge(state[r], echoInput(graph[r], state[r])) = state[r]
    /\ Merge(state[r], return(state[r])) = state[r]
    /\ ~Completed(r, "callAgent") =>
         state[r] = initial[r] /\ state[r].agentOut = Unset
    /\ Completed(r, "callAgent") =>
         /\ state[r] = [initial[r] EXCEPT
                          !.agentOut = AgentOutput(initial[r].input, loaded[r])]
         /\ state[r].agentOut # Unset

\* a run of each kind of graph has executed echoInput, a successful callAgent
\* and return
C34_Witness ==
  \E r1 \in Runs, r2 \in Runs :
    /\ Scalable(r1) /\ ~Scalable(r2)
    /\ pc[r1] = "__end__" /\ pc[r2] = "__end__"
    /\ Completed(r1, "echoInput") /\ Completed(r1, "return")
    /\ Completed(r2, "echoInput") /\ Completed(r2, "return")
    /\ state[r1].agentOut # Unset /\ state[r2].agentOut # Unset
\* C35: tools are invoked only from inside a run. Loading and compiling the
\* graph modules executes neither the refund tool nor the books tool: whatever
\* the position of the module's top-level code, and so before the first
\* invoke of a graph, no tool has run outside a callAgent step.
C35_NoToolCallAtLoad ==
  /\ LoadToolCalls("refundPayment") = 0
  /\ LoadToolCalls("searchBooks") = 0
WithMemory(r) == graph[r] = "agentGraphWithMemory"
\* the exchanges of the successful agentGraphWithMemory runs among runs 1..k,
\* one after the other in invocation order
RECURSIVE ExchangesUpTo(_)
ExchangesUpTo(k) ==
  IF k = 0 THEN <<>>
  ELSE ExchangesUpTo(k - 1)
         \o (IF WithMemory(k) /\ Completed(k, "callAgent")
               THEN ExchangeOf(k) ELSE <<>>)
\* the runs started so far were invoked one after the other, each after the
\* one before it was over
Sequential == \A r \in Runs : pc[r] # "idle" => RanAlone(r)

C37_EveryRunTerminates ==
  /\ [](\A r \in Runs :
          /\ EnterCount(r, "echoInput") <= 1
          /\ EnterCount(r, "callAgent") <= (IF HasRetryPolicy(graph[r])
                                              THEN MaxAttempts ELSE 1)
          /\ EnterCount(r, "return") <= 1)
  /\ \A r \in Runs : (pc[r] # "idle") ~> (pc[r] \in {"__end__", "error"})

\* one run ended after two failed attempts and a third that succeeded, the
\* other was rejected after exhausting its attempts
C37_Witness ==
  \E r1 \in Runs, r2 \in Runs :
    /\ pc[r1] = "__end__" /\ failures[r1] = MaxAttempts - 1
    /\ EnterCount(r1, "callAgent") = MaxAttempts
    /\ pc[r2] = "error" /\ failures[r2] = MaxAttempts
    /\ invokeResult(r1).status = "fulfilled"
    /\ invokeResult(r2).status = "rejected"
\* C38: eviction racing with an in-flight run. When the store a run of user u
\* holds was evicted (clearUserMemory(u) while the run was suspended in
\* callAgent) and createMemory(u) has since registered another store, that
\* store holds no message saved by the run; a store not created yet is empty;
\* and the statistics count each registered user once.
C38_EvictedRunSavesElsewhere ==
  /\ \A r \in Runs :
       LET reg == memoryInstances[initial[r].userId] IN
       (Scalable(r) /\ evicted[r] /\ reg # NoInstance /\ userMemory[r] # reg)
         => SavedBy(r, reg) = <<>>
  /\ \A i \in Instances : i >= nextInstance => chatHistory[i] = <<>>
  /\ getMemoryStats.totalUsers = Cardinality(Registered(memoryInstances))
  /\ getMemoryStats.totalInstances = Cardinality(Registered(memoryInstances))
====
